---- MODULE Spec2Model ----
(***************************************************************************)
(* The `aptos account create` command (crates/aptos/src/account/create.rs) *)
(* as a state machine: one invocation of CreateAccount::execute, the three *)
(* remote calls it can make (node account read, faucet mint, submit and    *)
(* wait) and the responses the node and the faucet can give.               *)
(*                                                                         *)
(* Text is modelled as a sequence of tokens (one-character strings for the *)
(* sequence number, longer pieces for URLs and messages).  A u64 is the    *)
(* sequence of its decimal digits without leading zeros, so that the whole *)
(* 64-bit range, and the overflow just above it, is representable.         *)
(***************************************************************************)
EXTENDS Integers, Sequences, FiniteSets, TLC

\* ------------------------------------------------------------------ bounds
\* Longest sequence_number string the node is made to answer with, on top of
\* the fixed boundary samples below.
MaxLen == 2

\* ------------------------------------------------- constants of the program
GasUnitPrice == 1
MaxGasAmount == 1000
HttpOk == 200
FaucetUrl == "https://faucet.devnet.aptoslabs.com"
FaucetAmount == "0"

\* ------------------------------------------------------------------- inputs
\* The positional public_key argument: two keys that decode and one that
\* does not.
PublicKeyArgs == {"pkA", "pkB", "not-a-key"}
ValidPublicKeys == {"pkA", "pkB"}

\* What PrivateKeyInputOptions holds: nothing, a key, or an input that
\* extract_private_key fails on (unreadable file, undecodable text).
NoKey == "none"
BadKey == "unreadable"
PrivateKeys == {"skA", "skC"}
PrivateKeyInputs == {NoKey, BadKey} \cup PrivateKeys

ChainIds == {1, 4}
NodeUrls == {"http://node/"}

\* PrivateKey::public_key of the sender's key.  skA is the private half of
\* pkA, so the sender can also be the account being created.
PublicKeyOf(sk) == IF sk = "skA" THEN "pkA" ELSE "pkC"

\* AuthenticationKey::ed25519(pk).derived_address(): a hash of the key and
\* the scheme byte, modelled as an injective table over the sample keys.
derived_address(pk) ==
    CASE pk = "pkA" -> "0xa11c"
      [] pk = "pkB" -> "0xb0b5"
      [] pk = "pkC" -> "0xc4fe"
      [] OTHER -> "0x0"

\* ---------------------------------------------------------- Result values
\* Ok and Err are the two values of a Rust Result; Panic is the third way a
\* call can end: unwinding out of the function without a value.
Ok(v) == [ok |-> TRUE, panic |-> FALSE, val |-> v]
Err(e) == [ok |-> FALSE, panic |-> FALSE, err |-> e]
Panic(e) == [ok |-> FALSE, panic |-> TRUE, err |-> e]

\* The errors of the command: the variant and its message tokens.
UnexpectedError(msg) == [variant |-> "UnexpectedError", msg |-> msg]
OtherError(msg) == [variant |-> "other", msg |-> msg]

\* ------------------------------------------------------------- get_address
\* get_address as it would be if a key that does not decode fell back to a
\* default address instead of returning the error (told apart by C8).
get_address_default(pk_arg) ==
    IF pk_arg \in ValidPublicKeys
    THEN Ok(derived_address(pk_arg))
    ELSE Ok(derived_address("none"))

\* decode_key(public_key)?, then the address derived from the key.
get_address(pk_arg) ==
    IF pk_arg \in ValidPublicKeys
    THEN Ok(derived_address(pk_arg))
    ELSE Err(<<"unable to decode key">>)

\* ------------------------------------------------------ str::parse::<u64>
Digits == {"0", "1", "2", "3", "4", "5", "6", "7", "8", "9"}

DigitVal(c) ==
    CASE c = "0" -> 0 [] c = "1" -> 1 [] c = "2" -> 2 [] c = "3" -> 3
      [] c = "4" -> 4 [] c = "5" -> 5 [] c = "6" -> 6 [] c = "7" -> 7
      [] c = "8" -> 8 [] c = "9" -> 9

\* u64::MAX = 18446744073709551615
U64MaxDigits ==
    <<"1", "8", "4", "4", "6", "7", "4", "4", "0", "7",
      "3", "7", "0", "9", "5", "5", "1", "6", "1", "5">>

\* n (canonical digits) is greater than u64::MAX.
ExceedsU64(n) ==
    \/ Len(n) > Len(U64MaxDigits)
    \/ /\ Len(n) = Len(U64MaxDigits)
       /\ \E i \in 1..Len(n) :
            /\ \A j \in 1..(i - 1) : n[j] = U64MaxDigits[j]
            /\ DigitVal(n[i]) > DigitVal(U64MaxDigits[i])

\* result * 10 + digit on canonical digits.
MulTenAdd(acc, c) == IF acc = <<"0">> THEN <<c>> ELSE Append(acc, c)

RECURSIVE ParseDigits(_, _)
ParseDigits(acc, rest) ==
    IF rest = <<>> THEN Ok(acc)
    ELSE IF Head(rest) \notin Digits THEN Err("InvalidDigit")
    ELSE IF ExceedsU64(MulTenAdd(acc, Head(rest))) THEN Err("PosOverflow")
    ELSE ParseDigits(MulTenAdd(acc, Head(rest)), Tail(rest))

\* number.parse::<u64>(): an optional leading "+", then decimal digits; an
\* empty string, a lone sign, a "-", any other character and a value above
\* u64::MAX are errors.
ParseU64(s) ==
    IF s = <<>> THEN Err("Empty")
    ELSE IF s = <<"+">> \/ s = <<"-">> THEN Err("InvalidDigit")
    ELSE IF Head(s) = "+" THEN ParseDigits(<<"0">>, Tail(s))
    ELSE ParseDigits(<<"0">>, s)

\* ------------------------------------------------- what the network answers
\* The characters the node's sequence_number strings are made of.
SeqAlphabet == {"0", "7", "+", "-", "x"}

RECURSIVE StringsUpTo(_)
StringsUpTo(n) ==
    IF n = 0 THEN {<<>>}
    ELSE LET shorter == StringsUpTo(n - 1)
         IN  shorter \cup {Append(s, c) : s \in shorter, c \in SeqAlphabet}

\* u64::MAX, u64::MAX + 1 and a 21-digit number, next to every string of at
\* most MaxLen characters.
SeqStrings ==
    StringsUpTo(MaxLen)
      \cup {U64MaxDigits,
            SubSeq(U64MaxDigits, 1, 19) \o <<"6">>,
            <<"0">> \o U64MaxDigits,
            U64MaxDigits \o <<"0">>}

\* The value of the "sequence_number" member of the response body.
JsonMembers ==
    {[t |-> "absent", s |-> <<>>], [t |-> "null", s |-> <<>>],
     [t |-> "number", s |-> <<"7">>]}
      \cup {[t |-> "string", s |-> s] : s \in SeqStrings}

NoBody == [json |-> FALSE, object |-> FALSE,
           sequence_number |-> [t |-> "absent", s |-> <<>>]]
JsonArrayBody == [json |-> TRUE, object |-> FALSE,
                  sequence_number |-> [t |-> "absent", s |-> <<>>]]
JsonObject(member) == [json |-> TRUE, object |-> TRUE, sequence_number |-> member]
\* The node's error object {"code": 404, "message": ...}.
ErrorObjectBody == JsonObject([t |-> "absent", s |-> <<>>])

Response(transport_ok, status, body, failure) ==
    [transport_ok |-> transport_ok, status |-> status, body |-> body,
     failure |-> failure]

\* Answers to GET {node}accounts/{address}: no answer at all, an account
\* resource in any shape, or 404 / 500 with an error object or a non-JSON
\* page.
AccountResponses ==
    {Response(FALSE, 0, NoBody, <<"error sending request">>)}
      \cup {Response(TRUE, 200, b, <<>>) :
              b \in {NoBody, JsonArrayBody} \cup {JsonObject(m) : m \in JsonMembers}}
      \cup {Response(TRUE, st, b, <<>>) :
              st \in {404, 500}, b \in {NoBody, ErrorObjectBody}}

FaucetStatuses == {200, 201, 202, 404, 429, 500, 503}
FaucetResponses ==
    {Response(FALSE, 0, NoBody, <<"error sending request">>)}
      \cup {Response(TRUE, st, NoBody, <<>>) : st \in FaucetStatuses}

\* Outcomes of submit_and_wait: executed, rejected by the ledger, or lost.
SubmitResponses ==
    {Response(TRUE, 200, NoBody, <<>>),
     Response(TRUE, 400, NoBody, <<"SEQUENCE_NUMBER_TOO_OLD">>),
     Response(TRUE, 400, NoBody, <<"INVALID_AUTH_KEY">>),
     Response(TRUE, 400, NoBody, <<"BAD_CHAIN_ID">>),
     Response(FALSE, 0, NoBody, <<"error sending request">>)}

\* ------------------------------------------------------------- get_account
\* reqwest::get(url).await?.json().await: the status is not looked at; the
\* body must be JSON.
get_account(resp) ==
    IF ~resp.transport_ok THEN Err(resp.failure)
    ELSE IF ~resp.body.json THEN Err(<<"error decoding response body">>)
    ELSE Ok(resp.body)

\* account_response["sequence_number"]: Null unless the value is an object
\* that has the member.
IndexSequenceNumber(value) ==
    IF value.object /\ value.sequence_number.t # "absent"
    THEN value.sequence_number
    ELSE [t |-> "null", s |-> <<>>]

\* Value::as_str
as_str(member) == IF member.t = "string" THEN Ok(member.s) ELSE Err("None")

\* ----------------------------------------------------- get_sequence_number
\* get_sequence_number as it would be if a missing sequence_number counted
\* as 0 (told apart by C4).
get_sequence_number_lenient(resp) ==
    IF ~get_account(resp).ok
    THEN Err(UnexpectedError(get_account(resp).err))
    ELSE LET number == as_str(IndexSequenceNumber(get_account(resp).val))
         IN  IF ~number.ok THEN Ok(<<"0">>)
             ELSE IF ParseU64(number.val).ok THEN Ok(ParseU64(number.val).val)
             ELSE Panic(<<"called Result::unwrap() on an Err value: ",
                          ParseU64(number.val).err>>)

\* The account read of get_sequence_number on the node's answer: Ok(u64),
\* Err(UnexpectedError) or, through unwrap on a parse error, a panic.
get_sequence_number(resp) ==
    IF ~get_account(resp).ok
    THEN Err(UnexpectedError(get_account(resp).err))
    ELSE LET number == as_str(IndexSequenceNumber(get_account(resp).val))
         IN  IF ~number.ok THEN Err(UnexpectedError(<<"Sequence number not found">>))
             ELSE IF ParseU64(number.val).ok THEN Ok(ParseU64(number.val).val)
             ELSE Panic(<<"called Result::unwrap() on an Err value: ",
                          ParseU64(number.val).err>>)

\* ------------------------------------------------------------ post_account
\* The transaction LocalAccount::sign_with_transaction_builder produces from
\* the factory of post_account.
\* The digit of a value 0..9.
DigitText(n) ==
    CASE n = 0 -> "0" [] n = 1 -> "1" [] n = 2 -> "2" [] n = 3 -> "3"
      [] n = 4 -> "4" [] n = 5 -> "5" [] n = 6 -> "6" [] n = 7 -> "7"
      [] n = 8 -> "8" [] n = 9 -> "9"

\* n + 1 on canonical digits, wrapping at u64::MAX.
RECURSIVE Successor(_)
Successor(n) ==
    IF n = <<>> THEN <<"1">>
    ELSE IF n = U64MaxDigits THEN <<"0">>
    ELSE IF n[Len(n)] = "9" THEN Append(Successor(SubSeq(n, 1, Len(n) - 1)), "0")
    ELSE Append(SubSeq(n, 1, Len(n) - 1), DigitText(DigitVal(n[Len(n)]) + 1))

\* post_account as it would be if it signed with the number after the one
\* fetched (told apart by C1).
post_account_bumped(address, sender_key, sender_address, sequence_number, chain) ==
    [sender |-> sender_address,
     sequence_number |-> Successor(sequence_number),
     payload |-> <<"create_account", address>>,
     chain_id |-> chain,
     gas_unit_price |-> GasUnitPrice,
     max_gas_amount |-> MaxGasAmount,
     signed_by |-> sender_key]

\* post_account as it would be if the new account's address and the
\* sender's were taken for one another (told apart by C15).
post_account_swapped(address, sender_key, sender_address, sequence_number, chain) ==
    [sender |-> address,
     sequence_number |-> sequence_number,
     payload |-> <<"create_account", sender_address>>,
     chain_id |-> chain,
     gas_unit_price |-> GasUnitPrice,
     max_gas_amount |-> MaxGasAmount,
     signed_by |-> sender_key]

\* The signed transaction post_account hands to submit_and_wait.
post_account(address, sender_key, sender_address, sequence_number, chain) ==
    [sender |-> sender_address,
     sequence_number |-> sequence_number,
     payload |-> <<"create_account", address>>,
     chain_id |-> chain,
     gas_unit_price |-> GasUnitPrice,
     max_gas_amount |-> MaxGasAmount,
     signed_by |-> sender_key]

\* client.submit_and_wait(&transaction).await
submit_and_wait(resp) ==
    IF resp.transport_ok /\ resp.failure = <<>> THEN Ok(<<"executed">>)
    ELSE Err(OtherError(resp.failure))

\* ---------------------------------------------- create_account_with_faucet
StatusCodeText(st) ==
    CASE st = 200 -> "200" [] st = 201 -> "201" [] st = 202 -> "202"
      [] st = 404 -> "404" [] st = 429 -> "429" [] st = 500 -> "500"
      [] st = 503 -> "503" [] OTHER -> "000"

\* Display of http::StatusCode: the code and its canonical reason.
StatusToString(st) ==
    <<StatusCodeText(st), " ",
      CASE st = 200 -> "OK" [] st = 201 -> "Created" [] st = 202 -> "Accepted"
        [] st = 404 -> "Not Found" [] st = 429 -> "Too Many Requests"
        [] st = 500 -> "Internal Server Error"
        [] st = 503 -> "Service Unavailable" [] OTHER -> "<unknown status code>">>

\* mint_url as it would be if the faucet were asked to fund the account
\* (told apart by C12).
mint_url_funded(address) ==
    <<FaucetUrl, "/mint?amount=", "1000", "&auth_key=", address>>

\* format!("{}/mint?amount={}&auth_key={}", faucet, "0", address)
mint_url(address) ==
    <<FaucetUrl, "/mint?amount=", FaucetAmount, "&auth_key=", address>>

\* faucet_result as it would be if every 2xx status counted as success
\* (told apart by C6).
faucet_result_any_2xx(resp) ==
    IF ~resp.transport_ok THEN Err(OtherError(resp.failure))
    ELSE IF resp.status >= 200 /\ resp.status < 300
         THEN Ok(StatusToString(resp.status))
    ELSE Err(UnexpectedError(<<"Faucet issue: ">> \o StatusToString(resp.status)))

\* What create_account_with_faucet returns once the faucet has answered.
faucet_result(resp) ==
    IF ~resp.transport_ok THEN Err(OtherError(resp.failure))
    ELSE IF resp.status = HttpOk THEN Ok(StatusToString(resp.status))
    ELSE Err(UnexpectedError(<<"Faucet issue: ">> \o StatusToString(resp.status)))

\* ----------------------------------------------------------------- execute
\* err.to_string(): the message, behind the variant's prefix for the
\* command's own error type (its Display lives in common/types.rs; the first
\* token stands for that prefix and no property below depends on its text).
to_string(e) ==
    IF e.variant = "UnexpectedError" THEN <<"Unexpected error: ">> \o e.msg
    ELSE e.msg

\* The CliResult execute makes of execute_inner's result.
cli_result(inner, address) ==
    IF inner.ok
    THEN [kind |-> "Ok", text |-> <<"Account Created at ", address>>]
    ELSE [kind |-> "Err", text |-> to_string(inner.err)]

\* ------------------------------------------------- create_account_with_key
\* require_private_key as it would be if a missing key fell back to a
\* default sender key (told apart by C2).
require_private_key_default(input) ==
    IF input = BadKey THEN Err(OtherError(<<"unable to read the private key">>))
    ELSE IF input = NoKey THEN Ok("skC")
    ELSE Ok(input)

\* extract_private_key(encoding)?.ok_or(UnexpectedError(..))?
require_private_key(input) ==
    IF input = BadKey THEN Err(OtherError(<<"unable to read the private key">>))
    ELSE IF input = NoKey
         THEN Err(UnexpectedError(
                <<"One of ['--private-key', '--private-key-file', '--use-faucet'] must be provided">>))
    ELSE Ok(input)

\* -------------------------------------------------------------------- state
VARIABLES
    public_key,         \* the public_key argument
    private_key_input,  \* private_key_input_options
    use_faucet,         \* --use-faucet
    chain_id,           \* the chain_id argument
    node_url,           \* node.url
    pc,                 \* where the invocation stands
    address,            \* execute's local: the derived address ("" before)
    extract_calls,      \* calls of extract_private_key so far
    private_key,        \* create_account_with_key's local ("" before)
    sender_address,     \* create_account_with_key's local ("" before)
    sequence_number,    \* what get_sequence_number returned (<<>> before)
    signed,             \* the transactions built and signed, in order
    requests,           \* the network requests issued, in order
    responses,          \* the answers received; responses[i] answers requests[i]
    output,             \* the CliResults execute has returned
    inv,                \* concurrent invocations: inv[i] is invocation i's state
    ledger,             \* the chain they share: address -> sequence number
    ledger0             \* the chain as it was before any of them started

\* The state of the invocations that run side by side against one chain;
\* it is empty, and stays so, where a single invocation is studied.
conc_vars == <<inv, ledger, ledger0>>

vars ==
    <<public_key, private_key_input, use_faucet, chain_id, node_url, pc,
      address, extract_calls, private_key, sender_address, sequence_number,
      signed, requests, responses, output, inv, ledger, ledger0>>

inputs == <<public_key, private_key_input, use_faucet, chain_id, node_url>>
key_locals == <<extract_calls, private_key, sender_address, sequence_number, signed>>

Request(kind, method, url, txn) ==
    [kind |-> kind, method |-> method, url |-> url, txn |-> txn]

Init ==
    /\ public_key \in PublicKeyArgs
    /\ private_key_input \in PrivateKeyInputs
    /\ use_faucet \in BOOLEAN
    /\ chain_id \in ChainIds
    /\ node_url \in NodeUrls
    /\ pc = "execute"
    /\ address = ""
    /\ extract_calls = 0
    /\ private_key = ""
    /\ sender_address = ""
    /\ sequence_number = <<>>
    /\ signed = <<>>
    /\ requests = <<>>
    /\ responses = <<>>
    /\ output = <<>>
    /\ inv = <<>>
    /\ ledger = <<>>
    /\ ledger0 = <<>>

\* execute, up to the call of execute_inner: let address = self.get_address()?
execute ==
    /\ pc = "execute"
    /\ IF get_address(public_key).ok
       THEN /\ address' = get_address(public_key).val
            /\ pc' = "execute_inner"
            /\ output' = output
       ELSE /\ output' = Append(output, [kind |-> "Err",
                                         text |-> get_address(public_key).err])
            /\ pc' = "done"
            /\ address' = address
    /\ UNCHANGED <<conc_vars, inputs, key_locals, requests, responses>>

\* create_account_with_faucet as it would be if execute_inner also took the
\* faucet path when no private key was given (told apart by C16).
create_account_with_faucet_fallback ==
    /\ pc = "execute_inner"
    /\ use_faucet \/ private_key_input = NoKey
    /\ requests' = Append(requests, Request("faucet", "POST", mint_url(address), <<>>))
    /\ pc' = "faucet_wait"
    /\ UNCHANGED <<conc_vars, inputs, key_locals, address, responses, output>>

\* execute_inner with use_faucet: create_account_with_faucet up to the await
\* of the POST.
create_account_with_faucet ==
    /\ pc = "execute_inner"
    /\ use_faucet
    /\ requests' = Append(requests, Request("faucet", "POST", mint_url(address), <<>>))
    /\ pc' = "faucet_wait"
    /\ UNCHANGED <<conc_vars, inputs, key_locals, address, responses, output>>

\* The faucet's answer arrives: the rest of create_account_with_faucet and
\* of execute.
faucet_response ==
    /\ pc = "faucet_wait"
    /\ \E resp \in FaucetResponses :
         /\ responses' = Append(responses, resp)
         /\ output' = Append(output, cli_result(faucet_result(resp), address))
    /\ pc' = "done"
    /\ UNCHANGED <<conc_vars, inputs, key_locals, address, requests>>

\* create_account_with_key as it would be if it sent the submission without
\* awaiting the account read (told apart by C7).
create_account_with_key_eager ==
    /\ pc = "execute_inner"
    /\ ~use_faucet
    /\ extract_calls' = extract_calls + 1
    /\ IF require_private_key(private_key_input).ok
       THEN LET key == require_private_key(private_key_input).val
                sender == derived_address(PublicKeyOf(key))
                txn == post_account(address, key, sender, <<"0">>, chain_id)
            IN  /\ private_key' = key
                /\ sender_address' = sender
                /\ requests' = requests \o
                     <<Request("get_account", "GET", <<node_url, "accounts/", sender>>, <<>>),
                       Request("submit_and_wait", "POST", <<node_url>>, <<txn>>)>>
                /\ signed' = Append(signed, txn)
                /\ sequence_number' = <<"0">>
                /\ pc' = "submit_wait"
                /\ output' = output
       ELSE /\ output' = Append(output,
                            cli_result(require_private_key(private_key_input), address))
            /\ pc' = "done"
            /\ UNCHANGED <<private_key, sender_address, requests, signed,
                           sequence_number>>
    /\ UNCHANGED <<conc_vars, inputs, address, responses>>

\* execute_inner without use_faucet: create_account_with_key up to the await
\* inside get_sequence_number.
create_account_with_key ==
    /\ pc = "execute_inner"
    /\ ~use_faucet
    /\ extract_calls' = extract_calls + 1
    /\ IF require_private_key(private_key_input).ok
       THEN LET key == require_private_key(private_key_input).val
                sender == derived_address(PublicKeyOf(key))
            IN  /\ private_key' = key
                /\ sender_address' = sender
                /\ requests' = Append(requests,
                     Request("get_account", "GET", <<node_url, "accounts/", sender>>, <<>>))
                /\ pc' = "get_account_wait"
                /\ output' = output
       ELSE /\ output' = Append(output,
                            cli_result(require_private_key(private_key_input), address))
            /\ pc' = "done"
            /\ UNCHANGED <<private_key, sender_address, requests>>
    /\ UNCHANGED <<conc_vars, inputs, address, sequence_number, signed, responses>>

\* The node's answer to the account read arrives: the rest of
\* get_sequence_number, the match in create_account_with_key and, with a
\* sequence number, post_account up to the await of submit_and_wait.
get_account_response ==
    /\ pc = "get_account_wait"
    /\ \E resp \in AccountResponses :
         /\ responses' = Append(responses, resp)
         /\ IF get_sequence_number(resp).ok
            THEN LET txn == post_account(address, private_key, sender_address,
                                         get_sequence_number(resp).val, chain_id)
                 IN  /\ sequence_number' = get_sequence_number(resp).val
                     /\ signed' = Append(signed, txn)
                     /\ requests' = Append(requests,
                          Request("submit_and_wait", "POST", <<node_url>>, <<txn>>))
                     /\ pc' = "submit_wait"
                     /\ output' = output
            ELSE IF get_sequence_number(resp).panic
            THEN /\ pc' = "panicked"
                 /\ UNCHANGED <<sequence_number, signed, requests, output>>
            ELSE /\ output' = Append(output,
                                 cli_result(Err(get_sequence_number(resp).err), address))
                 /\ pc' = "done"
                 /\ UNCHANGED <<sequence_number, signed, requests>>
    /\ UNCHANGED <<conc_vars, inputs, address, extract_calls, private_key, sender_address>>

\* submit_response as it would be if a sequence-number conflict made the
\* command read the account again (told apart by C3).
submit_response_retry ==
    /\ pc = "submit_wait"
    /\ \E resp \in SubmitResponses :
         /\ responses' = Append(responses, resp)
         /\ IF resp.failure = <<"SEQUENCE_NUMBER_TOO_OLD">> /\ Len(requests) < 4
            THEN /\ requests' = Append(requests,
                      Request("get_account", "GET",
                              <<node_url, "accounts/", sender_address>>, <<>>))
                 /\ pc' = "get_account_wait"
                 /\ output' = output
            ELSE /\ output' = Append(output, cli_result(submit_and_wait(resp), address))
                 /\ pc' = "done"
                 /\ requests' = requests
    /\ UNCHANGED <<conc_vars, inputs, key_locals, address>>

\* submit_response as it would be if a sequence-number conflict sent the
\* command back to reading the account, again and again (told apart by
\* C13).
submit_response_resubmit ==
    /\ pc = "submit_wait"
    /\ \E resp \in SubmitResponses :
         IF resp.failure = <<"SEQUENCE_NUMBER_TOO_OLD">>
         THEN /\ pc' = "get_account_wait"
              /\ requests' = <<requests[1]>>
              /\ responses' = <<>>
              /\ signed' = <<>>
              /\ sequence_number' = <<>>
              /\ output' = output
         ELSE /\ responses' = Append(responses, resp)
              /\ output' = Append(output, cli_result(submit_and_wait(resp), address))
              /\ pc' = "done"
              /\ UNCHANGED <<requests, signed, sequence_number>>
    /\ UNCHANGED <<conc_vars, inputs, address, extract_calls, private_key,
                   sender_address>>

\* submit_and_wait returns: the rest of post_account, of
\* create_account_with_key and of execute.
submit_response ==
    /\ pc = "submit_wait"
    /\ \E resp \in SubmitResponses :
         /\ responses' = Append(responses, resp)
         /\ output' = Append(output, cli_result(submit_and_wait(resp), address))
    /\ pc' = "done"
    /\ UNCHANGED <<conc_vars, inputs, key_locals, address, requests>>

Next ==
    \/ execute
    \/ create_account_with_faucet
    \/ faucet_response
    \/ create_account_with_key
    \/ get_account_response
    \/ submit_response

Spec == Init /\ [][Next]_vars

\* Every request gets its answer and the runtime resumes the command when
\* it has: a step that can be taken is taken.
SpecLive == Init /\ [][Next]_vars /\ WF_vars(Next)

TypeOK ==
    /\ pc \in {"execute", "execute_inner", "faucet_wait", "get_account_wait",
               "submit_wait", "done", "panicked"}
    /\ Len(responses) <= Len(requests)
    /\ Len(output) <= 1

\* ------------------------------------------------------ notions of the claims
Terminated == pc \in {"done", "panicked"}

KindCount(kind) == Cardinality({i \in 1..Len(requests) : requests[i].kind = kind})

Contains(text, token) == \E i \in 1..Len(text) : text[i] = token

\* The node's answer carries a sequence number: a JSON object whose
\* sequence_number is a string holding an unsigned 64-bit integer.
CarriesSequenceNumber(resp) ==
    /\ resp.transport_ok
    /\ resp.body.json
    /\ resp.body.object
    /\ resp.body.sequence_number.t = "string"
    /\ ParseU64(resp.body.sequence_number.s).ok

\* The step that issued a request of this kind failed on this answer.
StepFailed(kind, resp) ==
    CASE kind = "faucet" -> ~(resp.transport_ok /\ resp.status = 200)
      [] kind = "get_account" -> ~CarriesSequenceNumber(resp)
      [] kind = "submit_and_wait" -> ~(resp.transport_ok /\ resp.failure = <<>>)

ErrorOutput == Len(output) = 1 /\ output[1].kind = "Err"
SuccessOutput == Len(output) = 1 /\ output[1].kind = "Ok"

\* ------------------------------------------------------------------------ C1
\* C1: on the key path every transaction handed to submit_and_wait carries
\* exactly the sequence number that the one preceding get_sequence_number
\* call, made for the sender's address, returned: the decimal value of the
\* string the node answered with, not incremented, decremented or replaced.
C1_SequenceNumberAsFetched ==
    \A i \in 1..Len(requests) :
        requests[i].kind = "submit_and_wait" =>
            /\ ~use_faucet
            /\ i = 2
            /\ requests[1].kind = "get_account"
            /\ requests[1].url = <<node_url, "accounts/", sender_address>>
            /\ sender_address = derived_address(PublicKeyOf(private_key_input))
            /\ Len(responses) >= 1
            /\ CarriesSequenceNumber(responses[1])
            /\ sequence_number = ParseU64(responses[1].body.sequence_number.s).val
            /\ Len(requests[i].txn) = 1
            /\ requests[i].txn[1].sequence_number = sequence_number
            /\ signed = requests[i].txn

\* The node answered "07" and the transaction under submission carries 7.
C1_Witness ==
    /\ pc = "submit_wait"
    /\ Len(requests) = 2
    /\ responses[1].body.sequence_number.s = <<"0", "7">>
    /\ requests[2].txn[1].sequence_number = <<"7">>

\* ------------------------------------------------------------------------ C2
\* C2: with a public key that decodes, use_faucet false and no private key
\* to extract, the command never waits on the network, issues no request of
\* any kind and, once it has ended, has returned one error.
C2_NoKeyNoNetwork ==
    (/\ public_key \in ValidPublicKeys
     /\ ~use_faucet
     /\ private_key_input \in {NoKey, BadKey})
        => /\ requests = <<>>
           /\ signed = <<>>
           /\ pc \in {"execute", "execute_inner", "done"}
           /\ pc = "done" => ErrorOutput

\* No key at all: the command has ended on the "must be provided" error
\* after asking for the key once.
C2_Witness ==
    /\ public_key \in ValidPublicKeys
    /\ ~use_faucet
    /\ private_key_input = NoKey
    /\ extract_calls = 1
    /\ pc = "done"
    /\ ErrorOutput
    /\ requests = <<>>

\* ------------------------------------------------------------------------ C3
\* C3: an invocation makes at most one account read, signs and submits at
\* most one transaction and makes at most one faucet request, and the
\* request whose step failed is the last one it issues.
C3_NoRetry ==
    /\ KindCount("get_account") <= 1
    /\ KindCount("submit_and_wait") <= 1
    /\ KindCount("faucet") <= 1
    /\ Len(signed) <= 1
    /\ \A i \in 1..Len(responses) :
          StepFailed(requests[i].kind, responses[i])
              => /\ Len(requests) = i
                 /\ Len(signed) = KindCount("submit_and_wait")
                 /\ pc \in {"done", "panicked"}

\* The ledger rejected the one submission for a sequence-number conflict and
\* the command has ended.
C3_Witness ==
    /\ pc = "done"
    /\ Len(requests) = 2
    /\ Len(responses) = 2
    /\ responses[2].failure = <<"SEQUENCE_NUMBER_TOO_OLD">>
    /\ ErrorOutput

\* ------------------------------------------------------------------------ C4
\* C4: when the node answers the account read with 404, the command ends
\* with the error of get_sequence_number for that answer ("Sequence number
\* not found" for the node's error object, the decoding error for a body
\* that is not JSON); no transaction is built or signed and nothing is
\* submitted.
C4_NotFoundFails ==
    (/\ Len(responses) >= 1
     /\ requests[1].kind = "get_account"
     /\ responses[1].status = 404)
        => /\ pc = "done"
           /\ ErrorOutput
           /\ output[1].text = to_string(get_sequence_number(responses[1]).err)
           /\ responses[1].body = ErrorObjectBody
                => Contains(output[1].text, "Sequence number not found")
           /\ responses[1].body = NoBody
                => Contains(output[1].text, "error decoding response body")
           /\ signed = <<>>
           /\ Len(requests) = 1

C4_Witness ==
    /\ ~use_faucet
    /\ Len(responses) = 1
    /\ responses[1].status = 404
    /\ responses[1].body = ErrorObjectBody
    /\ pc = "done"
    /\ ErrorOutput
    /\ Contains(output[1].text, "Sequence number not found")
    /\ signed = <<>>

\* ------------------------------------------------------------------------ C5
\* C5: when the node's sequence_number is a string that is no unsigned
\* 64-bit integer, get_sequence_number returns an error to its caller: the
\* command ends with an error result and no submission, and does not abort.
C5_ParseErrorReturned ==
    (/\ Len(responses) >= 1
     /\ requests[1].kind = "get_account"
     /\ responses[1].transport_ok
     /\ responses[1].body.json
     /\ responses[1].body.object
     /\ responses[1].body.sequence_number.t = "string"
     /\ ~ParseU64(responses[1].body.sequence_number.s).ok)
        => /\ pc = "done"
           /\ ErrorOutput
           /\ KindCount("submit_and_wait") = 0

\* ------------------------------------------------------------------------ C6
\* C6: on the faucet path the command reports success exactly when the
\* faucet answered with status 200; for any other status the output is an
\* error whose message contains that status code.
C6_FaucetOnly200 ==
    (/\ Len(responses) >= 1
     /\ requests[1].kind = "faucet")
        => /\ Len(output) = 1
           /\ SuccessOutput <=> (responses[1].transport_ok /\ responses[1].status = 200)
           /\ (responses[1].transport_ok /\ responses[1].status # 200)
                => /\ ErrorOutput
                   /\ Contains(output[1].text, StatusCodeText(responses[1].status))
                   /\ StatusCodeText(responses[1].status) # "000"

\* The faucet answered 201 Created and the command reported an error naming
\* 201.
C6_Witness ==
    /\ use_faucet
    /\ Len(responses) = 1
    /\ responses[1].status = 201
    /\ ErrorOutput
    /\ Contains(output[1].text, "201")

\* ------------------------------------------------------------------------ C7
\* C7: requests are issued only after the address has been derived, one at
\* a time, in the order faucet alone or account read then submission; the
\* submission is issued only once the account read has been answered with a
\* sequence number.
C7_StepOrder ==
    /\ requests # <<>>
         => /\ public_key \in ValidPublicKeys
            /\ address = derived_address(public_key)
    /\ Len(requests) <= Len(responses) + 1
    /\ \A i \in 1..Len(requests) :
          /\ requests[i].kind \in {"faucet", "get_account"} => i = 1
          /\ requests[i].kind = "submit_and_wait"
               => /\ i = 2
                  /\ requests[1].kind = "get_account"
                  /\ Len(responses) >= 1
                  /\ CarriesSequenceNumber(responses[1])
                  /\ sequence_number # <<>>
    /\ signed # <<>> => KindCount("submit_and_wait") = 1
    /\ pc = "faucet_wait" => Len(requests) = 1 /\ responses = <<>>
    /\ pc = "get_account_wait" => Len(requests) = 1 /\ responses = <<>>
    /\ pc = "submit_wait" => Len(requests) = 2 /\ Len(responses) = 1

\* The submission is outstanding, the account read answered before it.
C7_Witness ==
    /\ pc = "submit_wait"
    /\ Len(requests) = 2
    /\ requests[2].kind = "submit_and_wait"
    /\ Len(responses) = 1
    /\ address # ""

\* ------------------------------------------------------------------------ C8
\* C8: with a public key that does not decode, the command ends with an
\* error straight from execute: the private key is never asked for and no
\* request is issued, whatever use_faucet and the private key input are.
C8_BadPublicKeyStops ==
    public_key \notin ValidPublicKeys
        => /\ pc \in {"execute", "done"}
           /\ pc = "done" => ErrorOutput
           /\ address = ""
           /\ extract_calls = 0
           /\ private_key = ""
           /\ requests = <<>>
           /\ signed = <<>>

\* Ended on the decoding error although a private key was supplied.
C8_Witness ==
    /\ public_key \notin ValidPublicKeys
    /\ private_key_input \in PrivateKeys
    /\ ~use_faucet
    /\ pc = "done"
    /\ ErrorOutput
    /\ requests = <<>>

\* ------------------------------------------------------------------------ C9
\* C9: a success message names the address derived from the public_key
\* argument and is given only when the last step of the chosen path
\* succeeded (faucet 200 for that address, or a create-account transaction
\* for that address submitted and executed); and an invocation that has
\* ended after its faucet request, account read or submission failed has
\* returned an error, the failing step's own, never a success.
C9_SuccessAndFailureOutputs ==
    /\ SuccessOutput
         => /\ output[1].text = <<"Account Created at ", derived_address(public_key)>>
            /\ Len(responses) = Len(requests)
            /\ requests # <<>>
            /\ ~StepFailed(requests[Len(requests)].kind, responses[Len(responses)])
            /\ use_faucet => requests[1].url[5] = derived_address(public_key)
            /\ ~use_faucet
                 => /\ Len(requests) = 2
                    /\ requests[2].txn[1].payload
                         = <<"create_account", derived_address(public_key)>>
    /\ \A i \in 1..Len(responses) :
          (Terminated /\ StepFailed(requests[i].kind, responses[i]))
              => /\ ErrorOutput
                 /\ requests[i].kind = "faucet"
                      => output[1].text = to_string(faucet_result(responses[i]).err)
                 /\ requests[i].kind = "get_account"
                      => output[1].text = to_string(get_sequence_number(responses[i]).err)
                 /\ requests[i].kind = "submit_and_wait"
                      => output[1].text = to_string(submit_and_wait(responses[i]).err)

\* ----------------------------------------------------------------------- C10
\* C10: an invocation that has terminated has produced exactly one result,
\* a success message or an error message.
C10_ExactlyOneResult ==
    Terminated
        => /\ Len(output) = 1
           /\ output[1].kind \in {"Ok", "Err"}

\* ======================================================================
\* Invocations side by side.  Two invocations of the command run against one
\* chain; every step of an invocation is the step of the single invocation
\* above, taken on inv[i], and the node and the faucet answer from the
\* chain's state at the moment they answer.
\* ======================================================================
Invocations == {1, 2}

\* No account at the address.
Absent == <<>>

LedgerChain == CHOOSE c \in ChainIds : TRUE
LedgerNode == CHOOSE u \in NodeUrls : TRUE

LedgerAddresses == {derived_address(pk) : pk \in {"pkA", "pkB", "pkC"}}

\* The sequence number an account has when it is on the chain at the start:
\* a different one for every address.
StartSequence(addr) ==
    CASE addr = "0xa11c" -> <<"7">>
      [] addr = "0xb0b5" -> <<"7", "0">>
      [] OTHER -> <<"0">>

\* The chains the invocations can start on: any subset of the accounts
\* exists.
InitialLedgers ==
    {[a \in LedgerAddresses |-> IF a \in present THEN StartSequence(a) ELSE Absent] :
        present \in SUBSET LedgerAddresses}

\* The node's answer to the account read: the account resource with its
\* sequence number as a string, or 404 with the error object.
node_account(L, addr) ==
    IF addr \in DOMAIN L /\ L[addr] # Absent
    THEN Response(TRUE, 200, JsonObject([t |-> "string", s |-> L[addr]]), <<>>)
    ELSE Response(TRUE, 404, ErrorObjectBody, <<>>)

\* Why the ledger rejects or aborts the transaction; <<>> when it executes.
ledger_verdict(L, txn) ==
    IF L[txn.sender] = Absent THEN <<"SENDING_ACCOUNT_DOES_NOT_EXIST">>
    ELSE IF txn.sequence_number # L[txn.sender] THEN <<"SEQUENCE_NUMBER_TOO_OLD">>
    ELSE IF L[txn.payload[2]] # Absent THEN <<"ACCOUNT_ALREADY_EXISTS">>
    ELSE <<>>

\* The chain after the transaction: one with the right sequence number is
\* included and uses that number up, and creates the account when it
\* executes.
ledger_apply(L, txn) ==
    IF L[txn.sender] = Absent \/ txn.sequence_number # L[txn.sender] THEN L
    ELSE LET created == IF ledger_verdict(L, txn) = <<>>
                        THEN [L EXCEPT ![txn.payload[2]] = <<"0">>]
                        ELSE L
         IN  [created EXCEPT ![txn.sender] = Successor(L[txn.sender])]

\* What submit_and_wait gets back for the transaction.
ledger_submit(L, txn) ==
    IF ledger_verdict(L, txn) = <<>> THEN Response(TRUE, 200, NoBody, <<>>)
    ELSE Response(TRUE, 400, NoBody, ledger_verdict(L, txn))

\* The faucet's mint of amount 0: the account exists afterwards.
faucet_mint(L, addr) ==
    IF addr \in DOMAIN L /\ L[addr] = Absent THEN [L EXCEPT ![addr] = <<"0">>] ELSE L

\* An invocation before its first step.
InvocationStart(pk_arg, key_input, faucet) ==
    [public_key |-> pk_arg, private_key_input |-> key_input, use_faucet |-> faucet,
     pc |-> "execute", address |-> "", extract_calls |-> 0, private_key |-> "",
     sender_address |-> "", sequence_number |-> <<>>, signed |-> <<>>,
     requests |-> <<>>, responses |-> <<>>, output |-> <<>>, overlapped |-> FALSE]

InvocationStarts ==
    {InvocationStart(pk_arg, key_input, faucet) :
        pk_arg \in PublicKeyArgs, key_input \in PrivateKeyInputs, faucet \in BOOLEAN}

\* Another invocation is between its first step and its end.
PeerRunning(i) ==
    \E j \in Invocations \ {i} : inv[j].pc \notin {"execute", "done", "panicked"}

\* The single invocation's variables are parked.
ConcInit ==
    /\ public_key = "not-a-key"
    /\ private_key_input = NoKey
    /\ use_faucet = FALSE
    /\ chain_id = LedgerChain
    /\ node_url = LedgerNode
    /\ pc = "parked"
    /\ address = ""
    /\ extract_calls = 0
    /\ private_key = ""
    /\ sender_address = ""
    /\ sequence_number = <<>>
    /\ signed = <<>>
    /\ requests = <<>>
    /\ responses = <<>>
    /\ output = <<>>
    /\ inv \in [Invocations -> InvocationStarts]
    /\ ledger \in InitialLedgers
    /\ ledger0 = ledger

single_vars ==
    <<public_key, private_key_input, use_faucet, chain_id, node_url, pc,
      address, extract_calls, private_key, sender_address, sequence_number,
      signed, requests, responses, output>>

\* inv with invocation i's record replaced.
Put(i, rec) == [inv EXCEPT ![i] = [rec EXCEPT !.overlapped = @ \/ PeerRunning(i)]]

\* conc_execute as it would be if deriving the address also asked the node
\* whether the account exists (told apart by C14).
conc_execute_lookup(i) ==
    /\ inv[i].pc = "execute"
    /\ IF get_address(inv[i].public_key).ok
       THEN inv' = Put(i, [inv[i] EXCEPT
                !.address = get_address(inv[i].public_key).val,
                !.requests = Append(@, Request("get_account", "GET",
                    <<LedgerNode, "accounts/", get_address(inv[i].public_key).val>>,
                    <<>>)),
                !.responses = Append(@, node_account(ledger,
                                        get_address(inv[i].public_key).val)),
                !.pc = "execute_inner"])
       ELSE inv' = Put(i, [inv[i] EXCEPT
                !.output = Append(@, [kind |-> "Err",
                                      text |-> get_address(inv[i].public_key).err]),
                !.pc = "done"])
    /\ UNCHANGED <<single_vars, ledger, ledger0>>

\* execute of invocation i, up to the call of execute_inner.
conc_execute(i) ==
    /\ inv[i].pc = "execute"
    /\ IF get_address(inv[i].public_key).ok
       THEN inv' = Put(i, [inv[i] EXCEPT
                !.address = get_address(inv[i].public_key).val,
                !.pc = "execute_inner"])
       ELSE inv' = Put(i, [inv[i] EXCEPT
                !.output = Append(@, [kind |-> "Err",
                                      text |-> get_address(inv[i].public_key).err]),
                !.pc = "done"])
    /\ UNCHANGED <<single_vars, ledger, ledger0>>

\* create_account_with_faucet of invocation i, up to the await of the POST.
conc_create_account_with_faucet(i) ==
    /\ inv[i].pc = "execute_inner"
    /\ inv[i].use_faucet
    /\ inv' = Put(i, [inv[i] EXCEPT
            !.requests = Append(@, Request("faucet", "POST",
                                           mint_url(inv[i].address), <<>>)),
            !.pc = "faucet_wait"])
    /\ UNCHANGED <<single_vars, ledger, ledger0>>

\* The faucet mints and answers invocation i.
conc_faucet_response(i) ==
    /\ inv[i].pc = "faucet_wait"
    /\ ledger' = faucet_mint(ledger, inv[i].address)
    /\ LET resp == Response(TRUE, 200, NoBody, <<>>)
       IN  inv' = Put(i, [inv[i] EXCEPT
                !.responses = Append(@, resp),
                !.output = Append(@, cli_result(faucet_result(resp), inv[i].address)),
                !.pc = "done"])
    /\ UNCHANGED <<single_vars, ledger0>>

\* create_account_with_key of invocation i, up to the await inside
\* get_sequence_number.
conc_create_account_with_key(i) ==
    /\ inv[i].pc = "execute_inner"
    /\ ~inv[i].use_faucet
    /\ IF require_private_key(inv[i].private_key_input).ok
       THEN LET key == require_private_key(inv[i].private_key_input).val
                sender == derived_address(PublicKeyOf(key))
            IN  inv' = Put(i, [inv[i] EXCEPT
                    !.extract_calls = @ + 1,
                    !.private_key = key,
                    !.sender_address = sender,
                    !.requests = Append(@, Request("get_account", "GET",
                                    <<LedgerNode, "accounts/", sender>>, <<>>)),
                    !.pc = "get_account_wait"])
       ELSE inv' = Put(i, [inv[i] EXCEPT
                    !.extract_calls = @ + 1,
                    !.output = Append(@,
                        cli_result(require_private_key(inv[i].private_key_input),
                                   inv[i].address)),
                    !.pc = "done"])
    /\ UNCHANGED <<single_vars, ledger, ledger0>>

\* What invocation i does with the node's answer resp to its account read.
after_account_read(i, resp) ==
    IF get_sequence_number(resp).ok
    THEN LET txn == post_account(inv[i].address, inv[i].private_key,
                                 inv[i].sender_address,
                                 get_sequence_number(resp).val, LedgerChain)
         IN  [inv[i] EXCEPT
                !.responses = Append(@, resp),
                !.sequence_number = get_sequence_number(resp).val,
                !.signed = Append(@, txn),
                !.requests = Append(@, Request("submit_and_wait", "POST",
                                               <<LedgerNode>>, <<txn>>)),
                !.pc = "submit_wait"]
    ELSE IF get_sequence_number(resp).panic
    THEN [inv[i] EXCEPT !.responses = Append(@, resp), !.pc = "panicked"]
    ELSE [inv[i] EXCEPT
            !.responses = Append(@, resp),
            !.output = Append(@, cli_result(Err(get_sequence_number(resp).err),
                                            inv[i].address)),
            !.pc = "done"]

\* conc_get_account_response as it would be if the sequence number fetched by
\* one invocation were kept and used by the next (told apart by C11).
conc_get_account_response_cached(i) ==
    /\ inv[i].pc = "get_account_wait"
    /\ LET fetched == {j \in Invocations \ {i} : inv[j].sequence_number # <<>>}
           resp == IF fetched = {}
                   THEN node_account(ledger, inv[i].sender_address)
                   ELSE Response(TRUE, 200,
                          JsonObject([t |-> "string",
                                      s |-> inv[CHOOSE j \in fetched : TRUE].sequence_number]),
                          <<>>)
       IN  inv' = Put(i, after_account_read(i, resp))
    /\ UNCHANGED <<single_vars, ledger, ledger0>>

\* The node answers invocation i's account read from the chain as it is now:
\* the rest of get_sequence_number and post_account up to submit_and_wait.
conc_get_account_response(i) ==
    /\ inv[i].pc = "get_account_wait"
    /\ inv' = Put(i, after_account_read(i, node_account(ledger, inv[i].sender_address)))
    /\ UNCHANGED <<single_vars, ledger, ledger0>>

\* The ledger takes invocation i's transaction and submit_and_wait returns.
conc_submit_response(i) ==
    /\ inv[i].pc = "submit_wait"
    /\ LET txn == inv[i].requests[Len(inv[i].requests)].txn[1]
           resp == ledger_submit(ledger, txn)
       IN  /\ ledger' = ledger_apply(ledger, txn)
           /\ inv' = Put(i, [inv[i] EXCEPT
                    !.responses = Append(@, resp),
                    !.output = Append(@, cli_result(submit_and_wait(resp),
                                                    inv[i].address)),
                    !.pc = "done"])
    /\ UNCHANGED <<single_vars, ledger0>>

ConcNext ==
    \/ \E i \in Invocations : conc_execute(i)
    \/ \E i \in Invocations : conc_create_account_with_faucet(i)
    \/ \E i \in Invocations : conc_faucet_response(i)
    \/ \E i \in Invocations : conc_create_account_with_key(i)
    \/ \E i \in Invocations : conc_get_account_response(i)
    \/ \E i \in Invocations : conc_submit_response(i)

SpecConc == ConcInit /\ [][ConcNext]_vars

\* ----------------------------------------------------------------------- C11
\* The output of an invocation with the inputs of start that runs alone,
\* from beginning to end, on the chain L: the steps above in their order.
AloneOutput(start, L) ==
    IF ~get_address(start.public_key).ok
    THEN <<[kind |-> "Err", text |-> get_address(start.public_key).err]>>
    ELSE LET target == get_address(start.public_key).val
         IN  IF start.use_faucet
             THEN <<cli_result(faucet_result(Response(TRUE, 200, NoBody, <<>>)), target)>>
             ELSE IF ~require_private_key(start.private_key_input).ok
             THEN <<cli_result(require_private_key(start.private_key_input), target)>>
             ELSE LET key == require_private_key(start.private_key_input).val
                      sender == derived_address(PublicKeyOf(key))
                      read == get_sequence_number(node_account(L, sender))
                  IN  IF read.panic THEN <<>>
                      ELSE IF ~read.ok THEN <<cli_result(Err(read.err), target)>>
                      ELSE <<cli_result(
                               submit_and_wait(
                                 ledger_submit(L, post_account(target, key, sender,
                                                               read.val, LedgerChain))),
                               target)>>

\* The accounts an invocation reads or writes on the chain: the account it
\* creates and, on the key path with a key, the sender's.
Touched(start) ==
    IF ~get_address(start.public_key).ok THEN {}
    ELSE IF start.use_faucet THEN {get_address(start.public_key).val}
    ELSE IF ~require_private_key(start.private_key_input).ok THEN {}
    ELSE {get_address(start.public_key).val,
          derived_address(PublicKeyOf(require_private_key(start.private_key_input).val))}

Independent ==
    \A i, j \in Invocations : i # j => Touched(inv[i]) \cap Touched(inv[j]) = {}

\* C11 as stated: however two invocations running at the same time are
\* interleaved against the same chain, an invocation that has ended has the
\* output it would have had alone on the chain they started from.
C11_NoInterference ==
    (\A j \in Invocations : inv[j].overlapped)
        => \A i \in Invocations :
              inv[i].pc \in {"done", "panicked"}
                  => inv[i].output = AloneOutput(inv[i], ledger0)

\* C11 in the case it names: two key-path invocations that use the same
\* sender private key, running at the same time to create different
\* accounts, each end with the output they would have had alone.
C11_SameSenderNoInterference ==
    (/\ \A j \in Invocations : ~inv[j].use_faucet
     /\ inv[1].private_key_input \in PrivateKeys
     /\ inv[1].private_key_input = inv[2].private_key_input
     /\ inv[1].public_key # inv[2].public_key)
        => C11_NoInterference

\* C11, amended: invocations that touch no common account (no shared sender,
\* no shared account to create, and no account that one creates and the
\* other sends from) do not interfere: each ends with the output it would
\* have had alone.
C11_IndependentInvocationsDoNotInterfere ==
    Independent
        => \A i \in Invocations :
              inv[i].pc \in {"done", "panicked"}
                  => inv[i].output = AloneOutput(inv[i], ledger0)

\* Two key-path invocations with different senders, overlapping in time: the
\* first created its account through a transaction, the second has ended
\* too, and both have the output they would have had alone.
C11_Witness ==
    /\ Independent
    /\ \A i \in Invocations :
          /\ inv[i].pc = "done"
          /\ inv[i].overlapped
          /\ ~inv[i].use_faucet
          /\ Len(inv[i].requests) = 2
          /\ inv[i].output = AloneOutput(inv[i], ledger0)
    /\ inv[1].sender_address # inv[2].sender_address
    /\ inv[1].output[1].kind = "Ok"

\* ----------------------------------------------------------------------- C12
\* C12: every faucet request is a POST to the faucet's /mint with amount 0
\* and auth_key the address derived from the public_key argument, whatever
\* the chain id, the node and the private key input are.
C12_FaucetRequestShape ==
    \A i \in 1..Len(requests) :
        requests[i].kind = "faucet"
            => /\ requests[i].method = "POST"
               /\ requests[i].url =
                    <<"https://faucet.devnet.aptoslabs.com", "/mint?amount=", "0",
                      "&auth_key=", derived_address(public_key)>>
               /\ requests[i].txn = <<>>
               /\ public_key \in ValidPublicKeys

\* A faucet request went out on chain 4 with a private key supplied.
C12_Witness ==
    /\ use_faucet
    /\ chain_id = 4
    /\ private_key_input \in PrivateKeys
    /\ Len(requests) = 1
    /\ requests[1].kind = "faucet"
    /\ requests[1].url[3] = "0"

\* ----------------------------------------------------------------------- C13
\* How far the command has got.
PcRank(p) ==
    CASE p = "execute" -> 0
      [] p = "execute_inner" -> 1
      [] p \in {"faucet_wait", "get_account_wait"} -> 2
      [] p = "submit_wait" -> 3
      [] OTHER -> 4

\* C13: when every request is answered, every invocation comes to its end,
\* with its success or at its first failure; every step takes it further,
\* so there is no loop and no second wait on a request.
C13_Terminates ==
    /\ <>Terminated
    /\ [][PcRank(pc') > PcRank(pc)]_vars

\* Ended after both waits of the key path.
C13_Witness ==
    /\ pc = "done"
    /\ Len(requests) = 2
    /\ Len(responses) = 2
    /\ Len(output) = 1

\* ----------------------------------------------------------------------- C14
\* C14: the address an invocation derives is the one address of its
\* public_key argument: two invocations given the same key hold the same
\* address whatever their other inputs, whatever the chain holds and
\* whichever ran first, and deriving it issues no request.
C14_AddressDeterministic ==
    /\ \A i \in Invocations :
          /\ inv[i].address # ""
               => /\ inv[i].public_key \in ValidPublicKeys
                  /\ inv[i].address = derived_address(inv[i].public_key)
          /\ inv[i].pc = "execute_inner"
               => inv[i].requests = <<>> /\ inv[i].responses = <<>>
          /\ (inv[i].pc = "done" /\ inv[i].public_key \notin ValidPublicKeys)
               => inv[i].requests = <<>>
    /\ \A i, j \in Invocations :
          (/\ inv[i].public_key = inv[j].public_key
           /\ inv[i].address # ""
           /\ inv[j].address # "")
              => inv[i].address = inv[j].address
    /\ (\A i \in Invocations : inv[i].requests = <<>>) => ledger = ledger0

\* The first invocation has created pkB's account through the faucet; the
\* second, on the key path, has just derived the same address for pkB, with
\* no request of its own.
C14_Witness ==
    /\ inv[1].public_key = "pkB"
    /\ inv[2].public_key = "pkB"
    /\ inv[1].use_faucet
    /\ ~inv[2].use_faucet
    /\ inv[1].pc = "done"
    /\ ledger # ledger0
    /\ inv[2].pc = "execute_inner"
    /\ inv[2].requests = <<>>
    /\ inv[2].address = inv[1].address

\* ----------------------------------------------------------------------- C15
\* C15: every submitted transaction is sent by the address derived from the
\* supplied private key's public key and signed with that key, creates the
\* account at the address derived from the public_key argument, carries the
\* supplied chain id, gas unit price 1 and max gas amount 1000; and the
\* account read before it was made for the sender's address.
C15_TransactionFields ==
    \A i \in 1..Len(requests) :
        requests[i].kind = "submit_and_wait"
            => /\ private_key_input \in PrivateKeys
               /\ Len(requests[i].txn) = 1
               /\ requests[i].txn[1].sender
                    = derived_address(PublicKeyOf(private_key_input))
               /\ requests[i].txn[1].signed_by = private_key_input
               /\ requests[i].txn[1].payload
                    = <<"create_account", derived_address(public_key)>>
               /\ requests[i].txn[1].chain_id = chain_id
               /\ requests[i].txn[1].gas_unit_price = 1
               /\ requests[i].txn[1].max_gas_amount = 1000
               /\ requests[i].url = <<node_url>>
               /\ requests[1].kind = "get_account"
               /\ requests[1].method = "GET"
               /\ requests[1].url =
                    <<node_url, "accounts/",
                      derived_address(PublicKeyOf(private_key_input))>>

\* A transaction from skC's account creating pkB's, on chain 4: the read was
\* for the sender, which is not the target.
C15_Witness ==
    /\ private_key_input = "skC"
    /\ public_key = "pkB"
    /\ chain_id = 4
    /\ Len(requests) = 2
    /\ requests[2].kind = "submit_and_wait"
    /\ requests[1].url[3] # derived_address(public_key)
    /\ requests[2].txn[1].sender # requests[2].txn[1].payload[2]

\* ----------------------------------------------------------------------- C16
\* C16: the path is chosen by use_faucet alone.  With use_faucet the private
\* key is never extracted, the account is never read and nothing is signed or
\* submitted, even if a key was supplied, and the output is what the faucet's
\* answer makes it; without use_faucet no faucet request is issued.
C16_PathsExclusive ==
    /\ use_faucet
         => /\ extract_calls = 0
            /\ private_key = ""
            /\ sender_address = ""
            /\ sequence_number = <<>>
            /\ signed = <<>>
            /\ KindCount("get_account") = 0
            /\ KindCount("submit_and_wait") = 0
            /\ (pc = "done" /\ public_key \in ValidPublicKeys)
                 => /\ Len(requests) = 1
                    /\ requests[1].kind = "faucet"
                    /\ Len(responses) = 1
                    /\ output = <<cli_result(faucet_result(responses[1]),
                                             derived_address(public_key))>>
    /\ ~use_faucet
         => /\ KindCount("faucet") = 0
            /\ pc # "faucet_wait"
            /\ pc \in {"get_account_wait", "submit_wait", "panicked"}
                 => extract_calls = 1

\* The faucet path has ended with a private key supplied and never looked
\* at.
C16_Witness ==
    /\ use_faucet
    /\ private_key_input \in PrivateKeys
    /\ pc = "done"
    /\ Len(requests) = 1
    /\ requests[1].kind = "faucet"
    /\ extract_calls = 0

====
